---- MODULE Spec2Model ----
(***************************************************************************)
(* A model of wee-http (src/src/lib.rs, src/src/http.rs): the wire model,  *)
(* the request parser, the response serialiser, route registration and the *)
(* accept loop with one worker thread per connection.                      *)
(*                                                                         *)
(* Text is modelled by TLA+ strings, one character per byte.  The byte     *)
(* 0xFF, which never occurs in valid UTF-8, is written InvalidByte.        *)
(***************************************************************************)
EXTENDS Integers, Sequences, FiniteSets, TLC

VARIABLES
    tls_config,   \* Server.tls_config: "None" or "Some"
    regs,         \* the Server::path calls made so far, in order
    paths,        \* Server.paths: normalised path -> handler
    serverPc,     \* "building" | "listening" | "stopped"
    accepted,     \* number of connections the Acceptor has accepted
    acceptErrs,   \* number of failed accepts
    workers,      \* connection id -> the state of its worker thread
    arg,          \* input of the operation under test (pure-function specs)
    ret,          \* its result
    op            \* the operation applied, "none" before

vars == <<tls_config, regs, paths, serverPc, accepted, acceptErrs, workers,
          arg, ret, op>>

serverVars == <<tls_config, regs, paths, serverPc, accepted, acceptErrs, workers>>

-----------------------------------------------------------------------------
(* Bounds of the model *)

MaxPathLen == 4      \* longest path enumerated for normalisation
MaxRegs == 2         \* most Server::path calls before listen
MaxConns == 2        \* most connections accepted
MaxAcceptErrs == 1   \* most failed accepts

-----------------------------------------------------------------------------
(* Text helpers: std::str as used by the code *)

InvalidByte == "~"

Char(s, i) == SubSeq(s, i, i)

Min(S) == CHOOSE x \in S : \A y \in S : x <= y

Max(S) == CHOOSE x \in S : \A y \in S : x >= y

\* str::find: the index of the first occurrence of pat in s, 0 when absent
Find(s, pat) ==
    LET I == {i \in 1..(Len(s) - Len(pat) + 1) : SubSeq(s, i, i + Len(pat) - 1) = pat}
    IN  IF I = {} THEN 0 ELSE Min(I)

\* a faulty variant of split_once: an empty remainder after the separator is
\* reported as no separator at all
SplitOnceNoEmptyTail(s, pat) ==
    LET i == Find(s, pat)
    IN  IF i = 0 \/ i + Len(pat) > Len(s) THEN <<>>
        ELSE <<SubSeq(s, 1, i - 1), SubSeq(s, i + Len(pat), Len(s))>>

\* str::split_once: <<>> for None, <<before, after>> for Some
SplitOnce(s, pat) ==
    LET i == Find(s, pat)
    IN  IF i = 0 THEN <<>>
        ELSE <<SubSeq(s, 1, i - 1), SubSeq(s, i + Len(pat), Len(s))>>

\* str::split(' '): never empty, an empty string yields one empty token
RECURSIVE Split(_, _)
Split(s, pat) ==
    LET i == Find(s, pat)
    IN  IF i = 0 THEN <<s>>
        ELSE <<SubSeq(s, 1, i - 1)>> \o Split(SubSeq(s, i + Len(pat), Len(s)), pat)

\* one line of str::lines: the text without its "\n" and one "\r" before it
StripCr(s) ==
    IF Len(s) > 0 /\ Char(s, Len(s)) = "\r" THEN SubSeq(s, 1, Len(s) - 1) ELSE s

\* str::lines: split at "\n" or "\r\n"; a final line ending adds no empty line
RECURSIVE Lines(_)
Lines(s) ==
    IF s = "" THEN <<>>
    ELSE LET i == Find(s, "\n")
         IN  IF i = 0 THEN <<s>>
             ELSE <<StripCr(SubSeq(s, 1, i - 1))>> \o Lines(SubSeq(s, i + 1, Len(s)))

IsSpace(c) == c \in {" ", "\t", "\r", "\n"}

RECURSIVE TrimStart(_)
TrimStart(s) ==
    IF Len(s) > 0 /\ IsSpace(Char(s, 1)) THEN TrimStart(SubSeq(s, 2, Len(s))) ELSE s

RECURSIVE TrimEnd(_)
TrimEnd(s) ==
    IF Len(s) > 0 /\ IsSpace(Char(s, Len(s))) THEN TrimEnd(SubSeq(s, 1, Len(s) - 1)) ELSE s

\* str::trim
Trim(s) == TrimEnd(TrimStart(s))

\* a faulty variant of trim_end_matches: strips at most one trailing pattern
StripOneSuffix(s, c) ==
    IF Len(s) > 0 /\ Char(s, Len(s)) = c THEN SubSeq(s, 1, Len(s) - 1) ELSE s

\* str::trim_end_matches(c): the pattern is removed repeatedly from the end
RECURSIVE trim_end_matches(_, _)
trim_end_matches(s, c) ==
    IF Len(s) > 0 /\ Char(s, Len(s)) = c
    THEN trim_end_matches(SubSeq(s, 1, Len(s) - 1), c)
    ELSE s

UpperAlphabet == "ABCDEFGHIJKLMNOPQRSTUVWXYZ"

LowerAlphabet == "abcdefghijklmnopqrstuvwxyz"

LowerChar(c) ==
    LET i == Find(UpperAlphabet, c)
    IN  IF i = 0 THEN c ELSE Char(LowerAlphabet, i)

\* str::to_lowercase
RECURSIVE to_lowercase(_)
to_lowercase(s) ==
    IF s = "" THEN "" ELSE LowerChar(Char(s, 1)) \o to_lowercase(SubSeq(s, 2, Len(s)))

Digits == "0123456789"

\* usize::to_string
RECURSIVE to_string(_)
to_string(n) ==
    IF n < 10 THEN Char(Digits, n + 1)
    ELSE to_string(n \div 10) \o Char(Digits, (n % 10) + 1)

\* std::str::from_utf8 succeeds
from_utf8_ok(buf) == Find(buf, InvalidByte) = 0

\* every string over alphabet A of length at most n
RECURSIVE Strings(_, _)
Strings(A, n) ==
    IF n = 0 THEN {""}
    ELSE LET S == Strings(A, n - 1) IN S \cup {s \o c : s \in S, c \in A}

-----------------------------------------------------------------------------
(* Wire model: src/src/http.rs *)

None == <<>>

Some(x) == <<x>>

\* HashMap::new
EmptyMap == [k \in {} |-> ""]

\* HashMap::insert: one value per key, the last insert wins
MapInsert(m, k, v) == [x \in (DOMAIN m) \cup {k} |-> IF x = k THEN v ELSE m[x]]

\* the reason phrase of StatusCode::NotFound, which lib.rs uses and http.rs lacks
StatusNotFoundDisplay == "404 Not Found"

\* impl Display for StatusCode
StatusCodeDisplay(status_code) ==
    CASE status_code = "Ok" -> "200 Okay"
      [] status_code = "NoContent" -> "204 No Content"
      [] status_code = "NotFound" -> StatusNotFoundDisplay

\* a faulty variant of ProtocolStr: HTTP/1.0 is reported as HTTP/1.1
ProtocolStrOneOne(protocol) ==
    CASE protocol = "Http1_1" -> "HTTP/1.1"
      [] protocol = "Http1_0" -> "HTTP/1.1"
      [] protocol = "Http0_9" -> "HTTP/0.9"

\* impl From<Protocol> for &str
ProtocolStr(protocol) ==
    CASE protocol = "Http1_1" -> "HTTP/1.1"
      [] protocol = "Http1_0" -> "HTTP/1.0"
      [] protocol = "Http0_9" -> "HTTP/0.9"

\* a faulty variant of ProtocolTryFrom: the token is matched as written
ProtocolTryFromExact(value) ==
    CASE value = "HTTP/1.1" -> [ok |-> TRUE, val |-> "Http1_1"]
      [] value = "HTTP/1.0" -> [ok |-> TRUE, val |-> "Http1_0"]
      [] value = "HTTP/0.9" -> [ok |-> TRUE, val |-> "Http0_9"]
      [] OTHER -> [ok |-> FALSE, val |-> "InvalidProtocol"]

\* impl TryFrom<&str> for Protocol
ProtocolTryFrom(value) ==
    LET v == to_lowercase(value)
    IN  CASE v = "http/1.1" -> [ok |-> TRUE, val |-> "Http1_1"]
          [] v = "http/1.0" -> [ok |-> TRUE, val |-> "Http1_0"]
          [] v = "http/0.9" -> [ok |-> TRUE, val |-> "Http0_9"]
          [] OTHER -> [ok |-> FALSE, val |-> "InvalidProtocol"]

\* a faulty variant of MethodTryFrom: the token is matched as written
MethodTryFromExact(value) ==
    CASE value = "POST" -> [ok |-> TRUE, val |-> "Post"]
      [] value = "GET" -> [ok |-> TRUE, val |-> "Get"]
      [] OTHER -> [ok |-> FALSE, val |-> "InvalidMethod"]

\* impl TryFrom<&str> for Method
MethodTryFrom(value) ==
    LET v == to_lowercase(value)
    IN  CASE v = "post" -> [ok |-> TRUE, val |-> "Post"]
          [] v = "get" -> [ok |-> TRUE, val |-> "Get"]
          [] OTHER -> [ok |-> FALSE, val |-> "InvalidMethod"]

\* the string form of a Method, which lib.rs asks for (Into::<&str>::into on
\* request.method()) and http.rs lacks: the enumerated literal
MethodStr(method) ==
    CASE method = "Get" -> "GET"
      [] method = "Post" -> "POST"

\* Response::new
ResponseNew ==
    [protocol |-> "Http1_1", status_code |-> "Ok", headers |-> EmptyMap, body |-> None]

\* Response::add_header
add_header(res, key, value) == [res EXCEPT !.headers = MapInsert(@, key, value)]

\* Response::set_body
set_body(res, body) == [res EXCEPT !.body = Some(body)]

\* Response::set_status_code, which lib.rs calls and http.rs lacks
set_status_code(res, status_code) == [res EXCEPT !.status_code = status_code]

\* a faulty variant of SerialiseHeaders: a Content-Length of the handler is kept
SerialiseHeadersKeep(res) ==
    IF res.body # None /\ "Content-Length" \notin DOMAIN res.headers
    THEN MapInsert(res.headers, "Content-Length", to_string(Len(res.body[1])))
    ELSE res.headers

\* Response::serialise, the header map after the Content-Length insert
SerialiseHeaders(res) ==
    IF res.body # None
    THEN MapInsert(res.headers, "Content-Length", to_string(Len(res.body[1])))
    ELSE res.headers

\* the orders in which HashMap::iter may visit the keys of m
IterOrders(m) ==
    LET n == Cardinality(DOMAIN m)
    IN  {f \in [1..n -> DOMAIN m] : \A i, j \in 1..n : i # j => f[i] # f[j]}

RECURSIVE HeaderText(_, _)
HeaderText(m, order) ==
    IF order = <<>> THEN ""
    ELSE Head(order) \o ": " \o m[Head(order)] \o "\r\n" \o HeaderText(m, Tail(order))

\* Response::serialise, the text returned when the headers are visited in `order`
SerialiseText(res, order) ==
    LET headers == SerialiseHeaders(res)
        body == IF res.body # None THEN res.body[1] ELSE ""
    IN  ProtocolStr(res.protocol) \o " " \o StatusCodeDisplay(res.status_code) \o "\r\n"
          \o HeaderText(headers, order) \o "\r\n" \o body

\* Response::serialise, every text it may return
serialise(res) == {SerialiseText(res, order) : order \in IterOrders(SerialiseHeaders(res))}

\* Response::serialise, the Response it leaves behind
SerialiseLeaves(res) == [res EXCEPT !.headers = SerialiseHeaders(res), !.body = None]

\* a faulty variant of RequestPath: one trailing slash is stripped
RequestPathStripOne(token) == StripOneSuffix(token, "/")

\* Request::from_bytes, the path of the request line's second token
RequestPath(token) == trim_end_matches(token, "/")

\* a faulty variant of ParseHeaders: the first line of a name keeps its value
RECURSIVE ParseHeadersFirstWins(_, _)
ParseHeadersFirstWins(lines, headers) ==
    IF lines = <<>> THEN [ok |-> TRUE, val |-> headers]
    ELSE LET kv == SplitOnce(Head(lines), ":")
         IN  IF kv = <<>> THEN [ok |-> FALSE, val |-> "MalformedHeaderLine"]
             ELSE ParseHeadersFirstWins(Tail(lines),
                    IF Trim(kv[1]) \in DOMAIN headers THEN headers
                    ELSE MapInsert(headers, Trim(kv[1]), Trim(kv[2])))

\* Request::from_bytes, the header lines: a line without ':' panics
RECURSIVE ParseHeaders(_, _)
ParseHeaders(lines, headers) ==
    IF lines = <<>> THEN [ok |-> TRUE, val |-> headers]
    ELSE LET kv == SplitOnce(Head(lines), ":")
         IN  IF kv = <<>> THEN [ok |-> FALSE, val |-> "MalformedHeaderLine"]
             ELSE ParseHeaders(Tail(lines), MapInsert(headers, Trim(kv[1]), Trim(kv[2])))

Panicked(why) == [ok |-> FALSE, err |-> why]

\* Request::from_bytes: every unwrap that fails panics
from_bytes(buf) ==
    IF ~from_utf8_ok(buf) THEN Panicked("Utf8Error")
    ELSE LET parts == SplitOnce(buf, "\r\n\r\n")
    IN  IF parts = <<>> THEN Panicked("MissingBodySeparator")
    ELSE LET raw_headers == Lines(parts[1])
    IN  IF raw_headers = <<>> THEN Panicked("NoRequestLine")
    ELSE LET first_line == Split(Head(raw_headers), " ")
             method == MethodTryFrom(first_line[1])
    IN  IF ~method.ok THEN Panicked("InvalidMethod")
    ELSE IF Len(first_line) < 2 THEN Panicked("NoPath")
    ELSE IF Len(first_line) < 3 THEN Panicked("NoProtocol")
    ELSE LET protocol == ProtocolTryFrom(first_line[3])
    IN  IF ~protocol.ok THEN Panicked("InvalidProtocol")
    ELSE LET headers == ParseHeaders(Tail(raw_headers), EmptyMap)
    IN  IF ~headers.ok THEN Panicked("MalformedHeaderLine")
    ELSE [ok |-> TRUE,
          req |-> [protocol |-> protocol.val,
                   method |-> method.val,
                   path |-> RequestPath(first_line[2]),
                   headers |-> headers.val,
                   body |-> parts[2]]]

-----------------------------------------------------------------------------
(* Route registration: src/src/lib.rs *)

\* a faulty variant of RouteKey: one trailing slash is stripped
RouteKeyStripOne(path) == StripOneSuffix(path, "/")

\* Server::path, the key under which the handler is stored
RouteKey(path) == trim_end_matches(path, "/")

\* Server::path
ServerPath(table, path, handler) == MapInsert(table, RouteKey(path), handler)

\* Server::bind, before any connection exists
ServerBound ==
    /\ regs = <<>>
    /\ paths = EmptyMap
    /\ serverPc = "building"
    /\ accepted = 0
    /\ acceptErrs = 0
    /\ workers = <<>>

-----------------------------------------------------------------------------
(* The server: src/src/lib.rs *)

StreamTimeoutMs == 1000

RecvBufLen == 2048

TlsRecvBufLen == 1024

\* the handlers an application may register (type Handler = fn(Request) -> Response)
\* and the routes it registers them at
Routes ==
    { <<"/a", "echo">>, <<"/a/", "root">>, <<"/b", "panics">>, <<"/", "blocks">> }

\* the bytes a client may send on a connection
ClientBytes ==
    { "GET /a HTTP/1.1\r\n\r\n",
      "POST /a/ HTTP/1.1\r\nHost: x\r\n\r\nhi",
      "GET /a/b HTTP/1.0\r\n\r\n",
      "GET /b HTTP/1.1\r\n\r\n",
      "GET / HTTP/1.1\r\n\r\n",
      "GET /a\r\n\r\n",
      "PUT /a HTTP/1.1\r\n\r\n",
      "GET /a HTTP/2\r\n\r\n",
      "GET /a HTTP/1.1\r\nHost x\r\n\r\n",
      "GET /a HTTP/1.1\r\n\r\n" \o InvalidByte }

\* fn not_found
not_found ==
    set_body(set_status_code(ResponseNew, "NotFound"),
             "404 Not Found\nOops! Looks like Nessie took our page for a swim in the Loch")

\* what a handler does with a request: <<"returns", response>>, <<"panics">>
\* or <<"blocks">> (it never returns)
HandlerRun(handler, request) ==
    CASE handler = "not_found" -> <<"returns", not_found>>
      [] handler = "root" -> <<"returns", ResponseNew>>
      [] handler = "echo" ->
            <<"returns", set_body(add_header(ResponseNew, "X-Path", request.path),
                                  request.body)>>
      [] handler = "panics" -> <<"panics">>
      [] handler = "blocks" -> <<"blocks">>

\* a faulty variant of Resolve: the longest registered key that is a prefix of the path wins
ResolvePrefix(table, path) ==
    LET hits == {k \in DOMAIN table : SubSeq(path, 1, Len(k)) = k}
    IN  IF hits = {} THEN "not_found"
        ELSE table[CHOOSE k \in hits : \A j \in hits : Len(k) >= Len(j)]

\* fn handle: match paths.get(request.path())
Resolve(table, path) ==
    IF path \in DOMAIN table THEN table[path] ELSE "not_found"

\* the state of a worker thread that thread::spawn has just started
NewWorker(kind) ==
    [kind |-> kind, pc |-> "Spawned",
     timeouts |-> [read |-> None, write |-> None],
     handshake |-> FALSE,
     recv |-> None, request |-> None, handler |-> None, response |-> None,
     out |-> None, written |-> "",
     reads |-> 0, calls |-> 0, writes |-> 0,
     panicked |-> None]

\* a failed unwrap: the thread panics and unwinds, which drops the stream
Panic(w, why) == [w EXCEPT !.pc = "Closed", !.panicked = Some(why)]

\* a faulty variant of TimeoutFailed: the error is dropped and the worker goes
\* on with the stream as it is
TimeoutFailedIgnored(w, why) ==
    [w EXCEPT !.pc = IF w.kind = "handle" THEN "Reading" ELSE "Handshaking"]

\* fn set_stream_timeouts: set_read_timeout(..).unwrap(), set_write_timeout(..).unwrap()
TimeoutFailed(w, why) == Panic(w, why)

\* a faulty variant of ParseFailed: a malformed request is answered with a 400
ParseFailedResponds(w, why) ==
    [w EXCEPT !.pc = "Closed", !.written = "HTTP/1.1 400 Bad Request\r\n\r\n",
              !.writes = 1]

\* fn handle: Request::from_bytes panicked
ParseFailed(w, why) == Panic(w, why)

\* a faulty variant of AfterAcceptErr: a failed accept ends the accept loop
AfterAcceptErrStops == "stopped"

\* Server::listen: Err(err) => println!, and the loop goes on
AfterAcceptErr == "listening"

\* a faulty variant of AfterWrite: the worker keeps the connection and reads again
AfterWriteKeepAlive == "Reading"

\* fn handle: after the write the function returns and the stream is dropped
AfterWrite == "Closed"

\* the byte counts Read::read may report for `data` and a buffer of `cap` bytes:
\* nothing, all that fits, or one byte less
ReadCounts(data, cap) ==
    LET avail == Min({Len(data), cap}) IN {n \in {0, avail - 1, avail} : n >= 0}

\* the byte counts Write::write may report for a non-empty `out`: all of it,
\* or one byte less
WriteCounts(out) == {n \in {Len(out) - 1, Len(out)} : n >= 1}

Init ==
    /\ ServerBound
    /\ tls_config = "None"
    /\ arg = None
    /\ ret = None
    /\ op = "none"

\* a faulty variant of CanRegister: the table stays open to registration after
\* listen has started
CanRegisterWhileListening == serverPc \in {"building", "listening"}

\* Server::path and Server::listen take self by value: once listen holds the
\* server, no path call can reach it
CanRegister == serverPc = "building"

\* Server::path
RegisterPath ==
    /\ CanRegister
    /\ Len(regs) < MaxRegs
    /\ \E r \in Routes :
          /\ paths' = ServerPath(paths, r[1], r[2])
          /\ regs' = Append(regs, r)
    /\ UNCHANGED <<tls_config, serverPc, accepted, acceptErrs, workers, arg, ret, op>>

\* Server::tls
ConfigureTls ==
    /\ serverPc = "building"
    /\ tls_config = "None"
    /\ tls_config' = "Some"
    /\ UNCHANGED <<regs, paths, serverPc, accepted, acceptErrs, workers, arg, ret, op>>

\* Server::listen: the route table goes behind an Arc, the accept loop starts
Listen ==
    /\ serverPc = "building"
    /\ serverPc' = "listening"
    /\ UNCHANGED <<tls_config, regs, paths, accepted, acceptErrs, workers, arg, ret, op>>

\* Server::listen: incoming() yields Ok(stream), a worker thread is spawned
AcceptOk ==
    /\ serverPc = "listening"
    /\ accepted < MaxConns
    /\ accepted' = accepted + 1
    /\ workers' = Append(workers,
                         NewWorker(IF tls_config = "Some" THEN "handle_tls" ELSE "handle"))
    /\ UNCHANGED <<tls_config, regs, paths, serverPc, acceptErrs, arg, ret, op>>

\* Server::listen: incoming() yields Err(err)
AcceptErr ==
    /\ serverPc = "listening"
    /\ acceptErrs < MaxAcceptErrs
    /\ acceptErrs' = acceptErrs + 1
    /\ serverPc' = AfterAcceptErr
    /\ UNCHANGED <<tls_config, regs, paths, accepted, workers, arg, ret, op>>

\* a faulty variant of MayRun: connections are served one after another, each
\* only once every earlier one is closed
MayRunInTurn(c) == \A d \in 1..(c - 1) : workers[d].pc = "Closed"

\* Server::listen: thread::spawn gives every connection a thread of its own,
\* which runs whatever the other connections do
MayRun(c) == c \in DOMAIN workers

\* only the worker of connection c takes a step
WorkerStep(c, w) ==
    /\ MayRun(c)
    /\ workers' = [workers EXCEPT ![c] = w]
    /\ UNCHANGED <<tls_config, regs, paths, serverPc, accepted, acceptErrs, arg, ret, op>>

\* every text a read of the client's bytes can leave in recv_buf[..len]
Received ==
    UNION {{SubSeq(data, 1, len) : len \in ReadCounts(data, RecvBufLen)} :
              data \in ClientBytes}

\* Request::from_bytes(&recv_buf[..len]), worked out once for each such text
ReceivedParsed == [buf \in Received |-> from_bytes(buf)]

\* fn handle: peer_addr, local_addr, set_stream_timeouts
Setup(c) ==
    /\ workers[c].kind = "handle"
    /\ workers[c].pc = "Spawned"
    /\ \E outcome \in {"ok", "peer_addr", "set_read_timeout", "set_write_timeout"} :
          LET w == workers[c]
              rd == [w EXCEPT !.timeouts.read = Some(StreamTimeoutMs)]
              wr == [rd EXCEPT !.timeouts.write = Some(StreamTimeoutMs)]
          IN  WorkerStep(c,
                CASE outcome = "ok" -> [wr EXCEPT !.pc = "Reading"]
                  [] outcome = "peer_addr" -> Panic(w, outcome)
                  [] outcome = "set_read_timeout" -> TimeoutFailed(w, outcome)
                  [] outcome = "set_write_timeout" -> TimeoutFailed(rd, outcome))

\* fn handle: stream.read(&mut recv_buf).unwrap()
Read(c) ==
    /\ workers[c].kind = "handle"
    /\ workers[c].pc = "Reading"
    /\ LET w == [workers[c] EXCEPT !.reads = @ + 1]
       IN  \/ \E data \in ClientBytes : \E len \in ReadCounts(data, RecvBufLen) :
                 WorkerStep(c, [w EXCEPT !.recv = Some(SubSeq(data, 1, len)),
                                         !.pc = "Parsing"])
           \/ WorkerStep(c, Panic(w, "read"))

\* fn handle: Request::from_bytes(&recv_buf[..len])
ParseRequest(c) ==
    /\ workers[c].kind = "handle"
    /\ workers[c].pc = "Parsing"
    /\ LET w == workers[c]
           parsed == ReceivedParsed[w.recv[1]]
       IN  WorkerStep(c,
             IF parsed.ok
             THEN [w EXCEPT !.request = Some(parsed.req), !.pc = "Routing"]
             ELSE ParseFailed(w, parsed.err))

\* fn handle: paths.get(request.path()) and the call of the handler found
Route(c) ==
    /\ workers[c].kind = "handle"
    /\ workers[c].pc = "Routing"
    /\ LET w == workers[c]
       IN  WorkerStep(c, [w EXCEPT !.handler = Some(Resolve(paths, w.request[1].path)),
                                   !.calls = @ + 1,
                                   !.pc = "Handling"])

\* fn handle: the handler returns its Response, or panics; one that blocks
\* never gets here
HandlerReturn(c) ==
    /\ workers[c].kind = "handle"
    /\ workers[c].pc = "Handling"
    /\ LET w == workers[c]
           run == HandlerRun(w.handler[1], w.request[1])
       IN  /\ run[1] # "blocks"
           /\ WorkerStep(c,
                IF run[1] = "returns"
                THEN [w EXCEPT !.response = Some(run[2]), !.pc = "Serializing"]
                ELSE Panic(w, "handler"))

\* fn handle: response.serialise()
SerialiseResponse(c) ==
    /\ workers[c].kind = "handle"
    /\ workers[c].pc = "Serializing"
    /\ LET w == workers[c]
       IN  \E text \in serialise(w.response[1]) :
              WorkerStep(c, [w EXCEPT !.out = Some(text),
                                      !.response = Some(SerialiseLeaves(w.response[1])),
                                      !.pc = "Writing"])

\* fn handle: stream.write(..).unwrap(), whose byte count is dropped; then
\* span.end() and the return
Write(c) ==
    /\ workers[c].kind = "handle"
    /\ workers[c].pc = "Writing"
    /\ LET w == [workers[c] EXCEPT !.writes = @ + 1]
       IN  \/ \E n \in WriteCounts(w.out[1]) :
                 WorkerStep(c, [w EXCEPT !.written = @ \o SubSeq(w.out[1], 1, n),
                                         !.pc = AfterWrite])
           \/ WorkerStep(c, Panic(w, "write"))

\* the response handle_tls sends whatever the request
TlsFixedResponse == "HTTP/1.1 200 OK\r\n\r\n"

\* fn handle_tls: set_stream_timeouts
TlsSetup(c) ==
    /\ workers[c].kind = "handle_tls"
    /\ workers[c].pc = "Spawned"
    /\ \E outcome \in {"ok", "set_read_timeout", "set_write_timeout"} :
          LET w == workers[c]
              rd == [w EXCEPT !.timeouts.read = Some(StreamTimeoutMs)]
              wr == [rd EXCEPT !.timeouts.write = Some(StreamTimeoutMs)]
          IN  WorkerStep(c,
                CASE outcome = "ok" -> [wr EXCEPT !.pc = "Handshaking"]
                  [] outcome = "set_read_timeout" -> TimeoutFailed(w, outcome)
                  [] outcome = "set_write_timeout" -> TimeoutFailed(rd, outcome))

\* fn handle_tls: ServerConnection::new and complete_io, the handshake
TlsHandshake(c) ==
    /\ workers[c].kind = "handle_tls"
    /\ workers[c].pc = "Handshaking"
    /\ LET w == [workers[c] EXCEPT !.handshake = TRUE]
       IN  \/ WorkerStep(c, [w EXCEPT !.pc = "Reading"])
           \/ WorkerStep(c, Panic(w, "handshake"))

\* fn handle_tls: read_tls, process_new_packets, reader().read
TlsRead(c) ==
    /\ workers[c].kind = "handle_tls"
    /\ workers[c].pc = "Reading"
    /\ LET w == [workers[c] EXCEPT !.reads = @ + 1]
       IN  \/ \E data \in ClientBytes : \E len \in ReadCounts(data, TlsRecvBufLen) :
                 WorkerStep(c, [w EXCEPT !.recv = Some(SubSeq(data, 1, len)),
                                         !.pc = "Writing"])
           \/ WorkerStep(c, Panic(w, "read"))

\* fn handle_tls: writer().write_all of the fixed response, write_tls
TlsWrite(c) ==
    /\ workers[c].kind = "handle_tls"
    /\ workers[c].pc = "Writing"
    /\ LET w == [workers[c] EXCEPT !.writes = @ + 1, !.out = Some(TlsFixedResponse)]
       IN  \/ \E n \in WriteCounts(TlsFixedResponse) :
                 WorkerStep(c, [w EXCEPT !.written = @ \o SubSeq(TlsFixedResponse, 1, n),
                                         !.pc = "Closed"])
           \/ WorkerStep(c, Panic(w, "write"))

\* one step of the worker of connection c
Worker(c) ==
    \/ Setup(c)
    \/ Read(c)
    \/ ParseRequest(c)
    \/ Route(c)
    \/ HandlerReturn(c)
    \/ SerialiseResponse(c)
    \/ Write(c)
    \/ TlsSetup(c)
    \/ TlsHandshake(c)
    \/ TlsRead(c)
    \/ TlsWrite(c)

Next ==
    \/ RegisterPath
    \/ ConfigureTls
    \/ Listen
    \/ AcceptOk
    \/ AcceptErr
    \/ \E c \in DOMAIN workers : Worker(c)

Spec == Init /\ [][Next]_vars

\* the operating system schedules every spawned thread: a worker that can
\* take a step eventually takes one
Scheduled(c) == c \in DOMAIN workers /\ Worker(c)

Fairness == \A c \in 1..MaxConns : WF_vars(Scheduled(c))

SpecFair == Init /\ [][Next]_vars /\ Fairness

-----------------------------------------------------------------------------
(* SpecNorm: path normalisation, applied by registration and by the parser *)

PathInputs == Strings({"/", "a"}, MaxPathLen) \cup {"/foo", "/foo/"}

\* the request line and blank line carrying `target`
RequestLineOnly(target) == "GET " \o target \o " HTTP/1.1\r\n\r\n"

\* the input of the i-th normalisation: the path, then each result in turn
NormInput(i) == IF i = 1 THEN arg ELSE ret[i - 1]

InitNorm ==
    /\ ServerBound
    /\ tls_config = "None"
    /\ arg \in PathInputs
    /\ ret = <<>>
    /\ op = "none"

\* Server::path normalises the path it is given
NormRegister ==
    /\ Len(ret) < 2
    /\ LET table == ServerPath(EmptyMap, NormInput(Len(ret) + 1), "root")
       IN  ret' = Append(ret, CHOOSE k \in DOMAIN table : TRUE)
    /\ op' = "Server::path"
    /\ UNCHANGED <<serverVars, arg>>

\* Request::from_bytes normalises the target of the request line
NormParse ==
    /\ Len(ret) < 2
    /\ ret' = Append(ret, from_bytes(RequestLineOnly(NormInput(Len(ret) + 1))).req.path)
    /\ op' = "Request::from_bytes"
    /\ UNCHANGED <<serverVars, arg>>

NextNorm == NormRegister \/ NormParse

SpecNorm == InitNorm /\ [][NextNorm]_vars

-----------------------------------------------------------------------------
(* SpecParse: Request::from_bytes on well-formed and malformed input *)

MethodTokens == {"GET", "get", "POST", "Post"}

TargetTokens == {"/", "/a", "/a/", "/a//", "/a/b", "a"}

ProtocolTokens == {"HTTP/1.1", "http/1.0", "HTTP/0.9"}

\* header blocks: each entry is the name and the value a line stands for,
\* followed by the line as the client writes it
HeaderLists ==
    { <<>>,
      << <<"Host", "x", "Host: x">> >>,
      << <<"Host", "x", "Host: x">>, <<"Host", "y", "Host: y">> >>,
      << <<"A", "b:c", "A: b:c">>, <<"Host", "x", "Host: x">> >>,
      << <<"Host", "x", " Host \t:\tx  ">>, <<"B", "", "B:">> >>,
      << <<"Host", "y", "Host:y">>, <<"A", "b", "A: b">>, <<"Host", "x:", "Host : x:">> >> }

BodyTexts == {"", "hi", "a\r\n\r\nb"}

RECURSIVE RenderHeaders(_)
RenderHeaders(hdrs) ==
    IF hdrs = <<>> THEN ""
    ELSE Head(hdrs)[3] \o "\r\n" \o RenderHeaders(Tail(hdrs))

\* METHOD SP target SP PROTOCOL CRLF (name: value CRLF)* CRLF body
RenderRequest(method, target, protocol, hdrs, body) ==
    method \o " " \o target \o " " \o protocol \o "\r\n"
      \o RenderHeaders(hdrs) \o "\r\n" \o body

WellFormedInputs ==
    { [wf |-> TRUE, method |-> m, target |-> t, protocol |-> p, hdrs |-> h, body |-> b,
       bytes |-> RenderRequest(m, t, p, h, b)] :
      m \in MethodTokens, t \in TargetTokens, p \in ProtocolTokens,
      h \in HeaderLists, b \in BodyTexts }

MalformedBytes ==
    { "",
      "GET /a HTTP/1.1\r\n",
      "GET /a HTTP/1.1\r\nHost: x\r\n",
      "\r\n\r\n",
      "GET\r\n\r\n",
      "GET /a\r\n\r\n",
      "PUT /a HTTP/1.1\r\n\r\n",
      "GET /a HTTP/2\r\n\r\n",
      "GET /a HTTP/1.1\r\nHost x\r\n\r\n",
      "GET /a HTTP/1.1\r\nHost: x\r\nAccept\r\n\r\n",
      "GET /a HTTP/1.1\r\n\r\n" \o InvalidByte }

MalformedInputs == { [wf |-> FALSE, bytes |-> b] : b \in MalformedBytes }

InitParse ==
    /\ ServerBound
    /\ tls_config = "None"
    /\ arg \in WellFormedInputs \cup MalformedInputs
    /\ ret = None
    /\ op = "none"

Parse ==
    /\ op = "none"
    /\ ret' = from_bytes(arg.bytes)
    /\ op' = "Request::from_bytes"
    /\ UNCHANGED <<serverVars, arg>>

\* the parsed Request's method, path and protocol given back as strings
RoundTrip ==
    /\ op = "Request::from_bytes"
    /\ ret.ok
    /\ ret' = [ok |-> TRUE, req |-> ret.req,
               tokens |-> <<MethodStr(ret.req.method), ret.req.path,
                            ProtocolStr(ret.req.protocol)>>]
    /\ op' = "round-trip"
    /\ UNCHANGED <<serverVars, arg>>

NextParse == Parse \/ RoundTrip

SpecParse == InitParse /\ [][NextParse]_vars

-----------------------------------------------------------------------------
(* SpecConv: Method::try_from and Protocol::try_from on single tokens *)

\* every way of writing a lower-case literal with some letters in upper case
RECURSIVE Spellings(_)
Spellings(lit) ==
    IF lit = "" THEN {""}
    ELSE LET c == Char(lit, 1)
             i == Find(LowerAlphabet, c)
             first == IF i = 0 THEN {c} ELSE {c, Char(UpperAlphabet, i)}
         IN  {f \o rest : f \in first, rest \in Spellings(Tail(lit))}

MethodLiterals == {"get", "post"}

ProtocolLiterals == {"http/1.1", "http/1.0", "http/0.9"}

OtherTokens ==
    {"", " ", "PUT", "DELETE", "GE", "GETS", " GET", "GET ", "G3T", "POS", "POST1",
     "HTTP", "HTTP/2", "HTTP/1.2", "HTTP/1.1 ", "HTTP 1.1", "HTTP/1", "HTTPS/1.1"}

ConvTokens ==
    UNION {Spellings(l) : l \in MethodLiterals \cup ProtocolLiterals} \cup OtherTokens

InitConv ==
    /\ ServerBound
    /\ tls_config = "None"
    /\ arg \in ConvTokens
    /\ ret = None
    /\ op = "none"

MethodConv ==
    /\ op = "none"
    /\ ret' = MethodTryFrom(arg)
    /\ op' = "Method::try_from"
    /\ UNCHANGED <<serverVars, arg>>

ProtocolConv ==
    /\ op = "none"
    /\ ret' = ProtocolTryFrom(arg)
    /\ op' = "Protocol::try_from"
    /\ UNCHANGED <<serverVars, arg>>

NextConv == MethodConv \/ ProtocolConv

SpecConv == InitConv /\ [][NextConv]_vars

-----------------------------------------------------------------------------
(* SpecSer: a handler builds a Response, the worker serialises it *)

HeaderNames == {"Content-Length", "X-A"}

HeaderValues == {"5", "b"}

ResponseBodies == {"", "hi", "0123456789a"}

InitSer ==
    /\ ServerBound
    /\ tls_config = "None"
    /\ arg = ResponseNew
    /\ ret = None
    /\ op = "Response::new"

AddHeader ==
    /\ \E k \in HeaderNames, v \in HeaderValues : arg' = add_header(arg, k, v)
    /\ op' = "add_header"
    /\ UNCHANGED <<serverVars, ret>>

SetBody ==
    /\ \E b \in ResponseBodies : arg' = set_body(arg, b)
    /\ op' = "set_body"
    /\ UNCHANGED <<serverVars, ret>>

\* serialise: ret keeps the Response as it was and the text returned
Serialise ==
    /\ \E out \in serialise(arg) : ret' = [before |-> arg, out |-> out]
    /\ arg' = SerialiseLeaves(arg)
    /\ op' = "serialise"
    /\ UNCHANGED serverVars

NextSer == AddHeader \/ SetBody \/ Serialise

SpecSer == InitSer /\ [][NextSer]_vars

-----------------------------------------------------------------------------
(* Properties of path normalisation (SpecNorm) *)

EndsWithSlash(p) == Len(p) > 0 /\ Char(p, Len(p)) = "/"

\* r is p without its whole run of trailing slashes
AllSlashesStripped(p, r) ==
    /\ ~EndsWithSlash(r)
    /\ \E k \in 0..Len(p) :
          /\ r = SubSeq(p, 1, Len(p) - k)
          /\ \A i \in (Len(p) - k + 1)..Len(p) : Char(p, i) = "/"

\* r is p without its last character when that is a slash, and p otherwise
OneSlashStripped(p, r) ==
    r = IF EndsWithSlash(p) THEN SubSeq(p, 1, Len(p) - 1) ELSE p

\* C8 as stated: normalisation, in the parser and in registration, strips
\* exactly one trailing slash and nothing else.
C8_StripsExactlyOne ==
    \A i \in 1..Len(ret) : OneSlashStripped(NormInput(i), ret[i])

\* C8 amended: normalisation, in the parser and in registration, strips every
\* trailing slash and nothing else, so "/" becomes "" and "/a//" becomes "/a".
C8_StripsAllTrailing ==
    \A i \in 1..Len(ret) : AllSlashesStripped(NormInput(i), ret[i])

C8_Witness ==
    /\ arg = "/a//"
    /\ op = "Request::from_bytes"
    /\ ret = <<"/a">>

\* C9: normalising a normalised path changes nothing, and "/foo/" and "/foo"
\* normalise to the same route key.
C9_Idempotent ==
    /\ Len(ret) = 2 => ret[2] = ret[1]
    /\ (arg \in {"/foo", "/foo/"} /\ Len(ret) >= 1) => ret[1] = "/foo"

C9_Witness ==
    /\ arg = "/a//"
    /\ Len(ret) = 2
    /\ ret[2] = "/a"

-----------------------------------------------------------------------------
(* Properties of Request::from_bytes (SpecParse) *)

\* the method and the protocol a request-line token names
MethodNamed ==
    [t \in MethodTokens |-> IF t \in {"GET", "get"} THEN "Get" ELSE "Post"]

ProtocolNamed ==
    [t \in ProtocolTokens |->
        CASE t = "HTTP/1.1" -> "Http1_1"
          [] t = "http/1.0" -> "Http1_0"
          [] t = "HTTP/0.9" -> "Http0_9"]

HeaderNamesOf(hdrs) == {hdrs[i][1] : i \in 1..Len(hdrs)}

\* C10: a well-formed request parses to the method and protocol of its first
\* and third tokens, the normalised target, one header entry per header name
\* and the text after the first blank line as body; "GET / HTTP/1.1" with
\* "Host: x" parses to GET, path "", HTTP/1.1, {Host: x} and an empty body.
C10_WellFormedParses ==
    (op = "Request::from_bytes" /\ arg.wf) =>
        /\ ret.ok
        /\ ret.req.method = MethodNamed[arg.method]
        /\ ret.req.protocol = ProtocolNamed[arg.protocol]
        /\ AllSlashesStripped(arg.target, ret.req.path)
        /\ DOMAIN ret.req.headers = HeaderNamesOf(arg.hdrs)
        /\ ret.req.body = arg.body
        /\ arg.bytes = "GET / HTTP/1.1\r\nHost: x\r\n\r\n" =>
              /\ ret.req.method = "Get"
              /\ ret.req.path = ""
              /\ ret.req.protocol = "Http1_1"
              /\ DOMAIN ret.req.headers = {"Host"}
              /\ ret.req.headers["Host"] = "x"
              /\ ret.req.body = ""

C10_Witness ==
    /\ op = "Request::from_bytes"
    /\ arg.wf
    /\ arg.bytes = "GET / HTTP/1.1\r\nHost: x\r\n\r\n"
    /\ ret.ok
    /\ ret.req.path = ""

-----------------------------------------------------------------------------
(* Properties of Response::serialise (SpecSer) *)

\* the header lines of a serialised response: those between the status line
\* and the first blank line
HeaderLinesOf(out) == Tail(Lines(SplitOnce(out, "\r\n\r\n")[1]))

\* the values of the header lines named `name`, in the order emitted
RECURSIVE ValuesNamed(_, _)
ValuesNamed(lines, name) ==
    IF lines = <<>> THEN <<>>
    ELSE LET kv == SplitOnce(Head(lines), ": ")
         IN  (IF kv # <<>> /\ kv[1] = name THEN <<kv[2]>> ELSE <<>>)
               \o ValuesNamed(Tail(lines), name)

\* the number a decimal numeral denotes, -1 when s is no decimal numeral
RECURSIVE DecimalValue(_)
DecimalValue(s) ==
    IF s = "" THEN -1
    ELSE LET d == Find(Digits, Char(s, Len(s))) - 1
             rest == SubSeq(s, 1, Len(s) - 1)
         IN  IF d < 0 THEN -1
             ELSE IF rest = "" THEN d
             ELSE IF DecimalValue(rest) < 0 THEN -1
             ELSE 10 * DecimalValue(rest) + d

ContentLengths == ValuesNamed(HeaderLinesOf(ret.out), "Content-Length")

BodyLengthEmitted ==
    /\ Len(ContentLengths) = 1
    /\ DecimalValue(ContentLengths[1]) = Len(ret.before.body[1])

\* C2 as stated: with a body set the output has a Content-Length equal to the
\* body's byte length, whatever the handler added; with no body set the
\* output has no Content-Length header at all.
C2_NoBodyNoContentLength ==
    op = "serialise" =>
        IF ret.before.body # None THEN BodyLengthEmitted ELSE ContentLengths = <<>>

\* C2 amended: with a body set the output has one Content-Length, equal to the
\* body's byte length, whatever the handler added; with no body set serialise
\* adds none, so the output has a Content-Length only when the handler added
\* one itself, and then with the handler's value.
C2_ContentLength ==
    op = "serialise" =>
        IF ret.before.body # None THEN BodyLengthEmitted
        ELSE ContentLengths =
                IF "Content-Length" \in DOMAIN ret.before.headers
                THEN <<ret.before.headers["Content-Length"]>>
                ELSE <<>>

C2_Witness ==
    /\ op = "serialise"
    /\ ret.before.body = Some("0123456789a")
    /\ "Content-Length" \in DOMAIN ret.before.headers
    /\ ret.before.headers["Content-Length"] = "5"
    /\ ContentLengths = <<"11">>

\* C3: a default Response (HTTP/1.1, 200, no headers) with body "hi"
\* serialises to exactly "HTTP/1.1 200 OK\r\nContent-Length: 2\r\n\r\nhi".
C3_DefaultResponseText ==
    (op = "serialise" /\ ret.before = set_body(ResponseNew, "hi")) =>
        ret.out = "HTTP/1.1 200 OK\r\nContent-Length: 2\r\n\r\nhi"

-----------------------------------------------------------------------------
(* Properties of the server (Spec) *)

\* the target of a request line: its second space-separated token
TargetOf(bytes) == Split(Head(Lines(bytes)), " ")[2]

\* p and r have the same normalised form
SameNormalForm(p, r) ==
    \E k \in 0..Len(p) :
        /\ AllSlashesStripped(p, SubSeq(p, 1, k))
        /\ AllSlashesStripped(r, SubSeq(p, 1, k))

\* the Server::path calls whose path has the normalised form of p
Matching(p) == {i \in 1..Len(regs) : SameNormalForm(p, regs[i][1])}

\* C1: a worker running handle invokes the handler registered (last) for a
\* path with the normalised form of the request path, and when no registered
\* path has that form it answers with the built-in "404 Not Found" response;
\* no prefix or partial match selects a handler.
C1_ExactRouting ==
    \A c \in DOMAIN workers :
        LET w == workers[c]
        IN  (w.kind = "handle" /\ w.handler # None) =>
                LET m == Matching(TargetOf(w.recv[1]))
                IN  /\ w.calls = 1
                    /\ w.handler[1] = IF m = {} THEN "not_found" ELSE regs[Max(m)][2]
                    /\ (m = {} /\ w.pc = "Serializing") =>
                          Find(w.response[1].body[1], "404 Not Found") = 1

C1_Witness ==
    /\ regs = << <<"/a", "echo">> >>
    /\ Len(workers) = 2
    /\ workers[1].recv = Some("POST /a/ HTTP/1.1\r\nHost: x\r\n\r\nhi")
    /\ workers[1].handler = Some("echo")
    /\ workers[1].pc = "Closed"
    /\ workers[2].recv = Some("GET /a/b HTTP/1.0\r\n\r\n")
    /\ workers[2].handler = Some("not_found")
    /\ workers[2].pc = "Serializing"

\* bytes that are no request: not text, no blank line, or one of the malformed
\* requests listed
IsMalformed(bytes) ==
    \/ bytes \in MalformedBytes
    \/ Find(bytes, "\r\n\r\n") = 0
    \/ Find(bytes, InvalidByte) # 0

\* C4: when the bytes a worker received do not parse, no Request is produced,
\* no handler is invoked and the connection ends with nothing written.
C4_ParseFailureSilent ==
    \A c \in DOMAIN workers :
        LET w == workers[c]
        IN  (w.kind = "handle" /\ w.recv # None /\ IsMalformed(w.recv[1])
               /\ w.pc # "Parsing") =>
                /\ w.pc = "Closed"
                /\ w.panicked # None
                /\ w.request = None
                /\ w.handler = None
                /\ w.calls = 0
                /\ w.writes = 0
                /\ w.written = ""

C4_Witness ==
    \E c \in DOMAIN workers :
        /\ workers[c].recv = Some("GET /a HTTP/1.1\r\nHost x\r\n\r\n")
        /\ workers[c].pc = "Closed"
        /\ workers[c].panicked = Some("MalformedHeaderLine")

\* C5: a worker reads request bytes at most once, invokes at most one handler,
\* writes at most once; after the write the connection is closed, and a closed
\* connection's worker does nothing more.
C5_SingleExchange ==
    /\ [](\A c \in DOMAIN workers :
            /\ workers[c].reads <= 1
            /\ workers[c].calls <= 1
            /\ workers[c].writes <= 1
            /\ workers[c].writes = 1 => workers[c].pc = "Closed")
    /\ [][\A c \in DOMAIN workers :
            workers[c].pc = "Closed" => workers'[c] = workers[c]]_vars

C5_Witness ==
    \E c \in DOMAIN workers :
        /\ workers[c].pc = "Closed"
        /\ workers[c].panicked = None
        /\ workers[c].reads = 1
        /\ workers[c].calls = 1
        /\ workers[c].writes = 1

\* a per-connection failure or an accept failure has happened
AnyFailure ==
    \/ acceptErrs > 0
    \/ \E c \in DOMAIN workers : workers[c].panicked # None

\* C6: after any per-connection failure or accept failure the accept loop is
\* still running and can accept a later connection, and a step of one worker,
\* a failing one included, changes neither another worker nor the Acceptor.
C6_FailuresIsolated ==
    /\ [](AnyFailure =>
            /\ serverPc = "listening"
            /\ accepted < MaxConns => ENABLED AcceptOk)
    /\ [][\A c \in DOMAIN workers :
            workers'[c] # workers[c] =>
                /\ serverPc' = serverPc
                /\ \A d \in DOMAIN workers : d # c => workers'[d] = workers[d]]_vars

C6_Witness ==
    /\ acceptErrs = 1
    /\ accepted = 1
    /\ workers[1].panicked = Some("handler")
    /\ serverPc = "listening"

\* C7: the bytes written to a connection are exactly the serialisation of the
\* response the handler resolved for that connection's own request returned.
C7_OwnResponseWritten ==
    \A c \in DOMAIN workers :
        LET w == workers[c]
        IN  (w.kind = "handle" /\ w.writes = 1 /\ w.panicked = None) =>
                w.written \in
                    serialise(HandlerRun(Resolve(paths, w.request[1].path),
                                         w.request[1])[2])

-----------------------------------------------------------------------------
(* C11: a request that ends right after the blank line has an empty body *)

EndsWithSeparator(bytes) ==
    /\ Len(bytes) >= 4
    /\ SubSeq(bytes, Len(bytes) - 3, Len(bytes)) = "\r\n\r\n"

\* C11: whenever Request::from_bytes is given a well-formed request line,
\* zero or more header lines, the \r\n\r\n separator and no further byte, it
\* succeeds and the Request's body is the empty string.
C11_EmptyBodyValid ==
    (op = "Request::from_bytes" /\ arg.wf /\ arg.body = ""
        /\ EndsWithSeparator(arg.bytes))
    => (ret.ok /\ ret.req.body = "")

\* reached both by the test no_body's bytes and by a request with header lines
C11_Witness ==
    /\ op = "Request::from_bytes"
    /\ arg.bytes = "POST / HTTP/1.1\r\nHost: x\r\n\r\n"
    /\ ret.ok
    /\ ret.req.body = ""
    /\ ret.req.headers = MapInsert(EmptyMap, "Host", "x")

-----------------------------------------------------------------------------
(* C12: the request line's tokens against the parsed fields' string forms *)

\* the enumerated literal a method or protocol token is a spelling of
CanonicalLiteral ==
    [t \in MethodTokens \cup ProtocolTokens |->
        CASE t \in {"GET", "get"} -> "GET"
          [] t \in {"POST", "Post"} -> "POST"
          [] t = "HTTP/1.1" -> "HTTP/1.1"
          [] t = "http/1.0" -> "HTTP/1.0"
          [] t = "HTTP/0.9" -> "HTTP/0.9"]

\* C12 as stated: the string forms of the parsed method, path and protocol are
\* exactly the three tokens of the request line.
C12_TokensRoundTrip ==
    (op = "round-trip" /\ arg.wf) =>
        ret.tokens = <<arg.method, arg.target, arg.protocol>>

\* C12: the string forms of the parsed method and protocol are the upper-case
\* literals the tokens spell, the path is the target with all trailing slashes
\* stripped, and the three are the request line's own tokens when method and
\* protocol are written in upper case and the target does not end in a slash.
C12_CanonicalRoundTrip ==
    (op = "round-trip" /\ arg.wf) =>
        /\ ret.tokens[1] = CanonicalLiteral[arg.method]
        /\ AllSlashesStripped(arg.target, ret.tokens[2])
        /\ ret.tokens[3] = CanonicalLiteral[arg.protocol]
        /\ (/\ arg.method = CanonicalLiteral[arg.method]
            /\ arg.protocol = CanonicalLiteral[arg.protocol]
            /\ ~EndsWithSlash(arg.target))
           => ret.tokens = <<arg.method, arg.target, arg.protocol>>

\* "get /a/ http/1.0" comes back as GET, /a and HTTP/1.0
C12_Witness ==
    /\ op = "round-trip"
    /\ arg.wf
    /\ <<arg.method, arg.target, arg.protocol>> = <<"get", "/a/", "http/1.0">>
    /\ ret.tokens = <<"GET", "/a", "HTTP/1.0">>

-----------------------------------------------------------------------------
(* C13: the string conversions of Method and Protocol (SpecConv) *)

Accepted(val) == [ok |-> TRUE, val |-> val]

Rejected(kind) == [ok |-> FALSE, val |-> kind]

\* C13: Method::try_from accepts every spelling of GET and of POST, in any
\* mix of cases, and answers Err(InvalidMethod) to every other string;
\* Protocol::try_from accepts every spelling of HTTP/1.1, HTTP/1.0 and HTTP/0.9
\* and answers Err(InvalidProtocol) to every other string.
C13_ConversionsExact ==
    /\ op = "Method::try_from" =>
          ret = CASE arg \in Spellings("get") -> Accepted("Get")
                  [] arg \in Spellings("post") -> Accepted("Post")
                  [] OTHER -> Rejected("InvalidMethod")
    /\ op = "Protocol::try_from" =>
          ret = CASE arg \in Spellings("http/1.1") -> Accepted("Http1_1")
                  [] arg \in Spellings("http/1.0") -> Accepted("Http1_0")
                  [] arg \in Spellings("http/0.9") -> Accepted("Http0_9")
                  [] OTHER -> Rejected("InvalidProtocol")

\* a mixed-case protocol token is accepted
C13_Witness ==
    /\ op = "Protocol::try_from"
    /\ arg = "hTtP/1.0"
    /\ ret = Accepted("Http1_0")

-----------------------------------------------------------------------------
(* C14: the route table after Server::listen has started *)

\* C14: once listen has started, no step (accept, accept error, or any step
\* of any worker, its handler included) adds, removes or replaces an entry of
\* the route table: the table every worker looks up is the one listen received.
C14_RouteTableFrozen ==
    [][serverPc = "listening" => (paths' = paths /\ regs' = regs)]_vars

\* two routes were registered, listen started, and every connection the bound
\* admits has run to its end, one of them through a registered handler
C14_Witness ==
    /\ serverPc = "listening"
    /\ Cardinality(DOMAIN paths) = 2
    /\ Len(workers) = MaxConns
    /\ \A c \in DOMAIN workers : workers[c].pc = "Closed"
    /\ \E c \in DOMAIN workers :
          /\ workers[c].calls = 1
          /\ workers[c].request # None
          /\ workers[c].request[1].path \in DOMAIN paths

-----------------------------------------------------------------------------
(* C15: the order of a plain worker's phases *)

\* the place of each phase in the exchange; Spawned is the worker before its
\* first read, while it prepares the stream
PhaseRank(pc) ==
    CASE pc = "Spawned" -> 0
      [] pc = "Reading" -> 1
      [] pc = "Parsing" -> 2
      [] pc = "Routing" -> 3
      [] pc = "Handling" -> 4
      [] pc = "Serializing" -> 5
      [] pc = "Writing" -> 6
      [] pc = "Closed" -> 7

\* what a worker in a given phase has and has not yet done
PhaseRecord(w) ==
    /\ w.reads <= 1
    /\ (w.recv # None) => w.reads = 1
    /\ (w.request # None) => (w.recv # None /\ from_bytes(w.recv[1]).ok)
    /\ (w.calls > 0) => (w.calls = 1 /\ w.request # None /\ w.handler # None)
    /\ (w.response # None) => w.calls = 1
    /\ (w.out # None) => w.response # None
    /\ (w.writes > 0 \/ w.written # "") => (w.writes = 1 /\ w.out # None)
    /\ (w.panicked # None) => w.pc = "Closed"

\* a step of the worker either enters the next phase or, on a failure, ends
\* the connection at once
PhaseStep(w, v) ==
    \/ /\ PhaseRank(v.pc) = PhaseRank(w.pc) + 1
       /\ v.panicked = None
    \/ /\ v.pc = "Closed"
       /\ w.pc # "Closed"
       /\ v.panicked # None
       /\ v.calls = w.calls
       /\ v.response = w.response
       /\ v.out = w.out
       /\ v.written = w.written

\* C15: a worker running handle goes through Reading, Parsing, Routing,
\* Handling, Serializing, Writing and Closed in this order, one phase at a
\* time and never back; its handler is called only with a parsed request and
\* a route lookup done, bytes are written only once the handler's response has
\* been serialised, and a failure in a phase closes the connection with no
\* later phase run.
C15_PhasesInOrder ==
    /\ [](\A c \in DOMAIN workers :
            workers[c].kind = "handle" => PhaseRecord(workers[c]))
    /\ [][\A c \in DOMAIN workers :
            (workers[c].kind = "handle" /\ workers'[c] # workers[c])
                => PhaseStep(workers[c], workers'[c])]_vars

\* one worker went through every phase and wrote; another failed in Parsing
\* and was closed with no handler called and nothing written
C15_Witness ==
    /\ Len(workers) >= 2
    /\ \E c \in DOMAIN workers :
          /\ workers[c].kind = "handle"
          /\ workers[c].pc = "Closed"
          /\ workers[c].panicked = None
          /\ workers[c].calls = 1
          /\ workers[c].written # ""
    /\ \E c \in DOMAIN workers :
          /\ workers[c].kind = "handle"
          /\ workers[c].pc = "Closed"
          /\ workers[c].recv # None
          /\ workers[c].request = None
          /\ workers[c].calls = 0
          /\ workers[c].written = ""

-----------------------------------------------------------------------------
(* C16: stream timeouts before any I/O *)

BothTimeoutsSet(w) == w.timeouts = [read |-> Some(1000), write |-> Some(1000)]

TouchedStream(w) ==
    w.reads > 0 \/ w.writes > 0 \/ w.handshake \/ w.recv # None \/ w.written # ""

\* C16: a worker, plain or TLS, that has read from its stream, written to it
\* or run the TLS handshake on it has set both the read and the write timeout
\* to 1000 ms before; a worker whose set_read_timeout or set_write_timeout
\* failed has done, and will do, none of these.
C16_TimeoutsBeforeIo ==
    \A c \in DOMAIN workers :
        LET w == workers[c]
        IN  /\ TouchedStream(w) => BothTimeoutsSet(w)
            /\ (w.panicked \in {Some("set_read_timeout"), Some("set_write_timeout")})
                  => (~TouchedStream(w) /\ ~BothTimeoutsSet(w) /\ w.pc = "Closed")

\* a TLS worker that shook hands, read and wrote, next to one whose write
\* timeout could not be set
C16_Witness ==
    /\ \E c \in DOMAIN workers :
          /\ workers[c].kind = "handle_tls"
          /\ workers[c].handshake
          /\ workers[c].reads = 1
          /\ workers[c].writes = 1
          /\ BothTimeoutsSet(workers[c])
    /\ \E c \in DOMAIN workers :
          /\ workers[c].panicked = Some("set_write_timeout")
          /\ workers[c].timeouts = [read |-> Some(1000), write |-> None]
          /\ ~TouchedStream(workers[c])

-----------------------------------------------------------------------------
(* C17: a handler that never returns (SpecFair) *)

\* the worker is inside a handler that never returns
Blocked(w) ==
    /\ w.pc = "Handling"
    /\ HandlerRun(w.handler[1], w.request[1])[1] = "blocks"

\* the worker's request has parsed and the handler it resolves to returns
Returning(w) ==
    /\ w.kind = "handle"
    /\ w.request # None
    /\ HandlerRun(Resolve(paths, w.request[1].path), w.request[1])[1] = "returns"

\* the worker's write has been performed and the connection is over: response
\* bytes went out, or the write itself failed
WritePerformed(w) ==
    /\ w.pc = "Closed"
    /\ w.writes = 1
    /\ w.written # "" \/ w.panicked = Some("write")

\* C17: under fair scheduling of the worker threads, while some worker is
\* stuck in its handler the accept loop can still take the next connection,
\* every accepted connection runs to its end unless its own handler blocks,
\* and every connection whose request parsed and whose handler returns gets
\* its response serialised and its write performed.
C17_BlockedHandlerIsolated ==
    /\ []((/\ \E c \in DOMAIN workers : Blocked(workers[c])
           /\ serverPc = "listening"
           /\ accepted < MaxConns) => ENABLED AcceptOk)
    /\ \A c \in 1..MaxConns :
          (c \in DOMAIN workers)
             ~> (c \in DOMAIN workers
                   /\ (workers[c].pc = "Closed" \/ Blocked(workers[c])))
    /\ \A c \in 1..MaxConns :
          (c \in DOMAIN workers /\ Returning(workers[c]))
             ~> (c \in DOMAIN workers /\ WritePerformed(workers[c]))

\* the first connection is stuck in its handler; the second was accepted
\* later, went through its handler and wrote its response
C17_Witness ==
    /\ Len(workers) = 2
    /\ Blocked(workers[1])
    /\ Returning(workers[2])
    /\ workers[2].calls = 1
    /\ workers[2].pc = "Closed"
    /\ workers[2].written # ""

-----------------------------------------------------------------------------
(* C18: header lines *)

\* the value of the last entry of the header block that bears the name
LastValue(hdrs, name) ==
    hdrs[Max({i \in 1..Len(hdrs) : hdrs[i][1] = name})][2]

\* requests whose header block has a line with no colon in it
NoColonRequests ==
    { "GET /a HTTP/1.1\r\nHost x\r\n\r\n",
      "GET /a HTTP/1.1\r\nHost: x\r\nAccept\r\n\r\n" }

\* C18: each header line gives the name written before its first colon and
\* the value written after it, both without surrounding whitespace, so a value
\* holding a colon stays whole; of several lines with one name the last one's
\* value is stored; a header line without a colon fails the whole parse.
C18_HeaderLines ==
    /\ (op = "Request::from_bytes" /\ arg.wf) =>
          /\ ret.ok
          /\ DOMAIN ret.req.headers = HeaderNamesOf(arg.hdrs)
          /\ \A name \in HeaderNamesOf(arg.hdrs) :
                ret.req.headers[name] = LastValue(arg.hdrs, name)
    /\ (op = "Request::from_bytes" /\ arg.bytes \in NoColonRequests) =>
          (~ret.ok /\ ret.err = "MalformedHeaderLine")

\* a padded line, a value ending in a colon, and a name written twice
C18_Witness ==
    /\ op = "Request::from_bytes"
    /\ arg.bytes = "GET /a HTTP/1.1\r\nHost:y\r\nA: b\r\nHost : x:\r\n\r\n"
    /\ ret.ok
    /\ ret.req.headers = MapInsert(MapInsert(EmptyMap, "A", "b"), "Host", "x:")

-----------------------------------------------------------------------------
(* C19: what serialise leaves in the Response (SpecSer) *)

\* C19 as stated: after a call of serialise the Response's header map is the
\* one it held before the call, with no Content-Length added to it, and its
\* body is absent.
C19_SerialiseLeavesHeaders ==
    (op = "serialise") =>
        /\ arg.headers = ret.before.headers
        /\ arg.body = None

-----------------------------------------------------------------------------
(* C20: the bytes a successful write delivers *)

\* C20 as stated: a worker whose write step completed without error has
\* delivered the whole text it had to send.
C20_WriteDeliversAll ==
    \A c \in DOMAIN workers :
        LET w == workers[c]
        IN  (w.pc = "Closed" /\ w.writes = 1 /\ w.panicked = None)
                => w.written = w.out[1]

=============================================================================
